---- MODULE Spec2Model ----
(***************************************************************************)
(* A model of the generic MongoDB access layer: mongoModel (model.go),    *)
(* DatabaseConnector (connector.go) and BuildDatabaseOptions              *)
(* (options_builder.go).                                                  *)
(*                                                                         *)
(* The document type T is testUser and the aggregation type C is          *)
(* testEmployee (model_test.go), cut to the fields ID, Age, Position and  *)
(* ID, Position.  The collection is a sequence of BSON documents in       *)
(* store-iteration (insertion) order.  A BSON value is a pair             *)
(* <<type, value>>.  The driver calls the handlers make are modelled as   *)
(* the Driver* operators.  A handler that makes one driver call is an     *)
(* operator from the collection and the arguments to what it returns, and *)
(* one action applies it.  FindMany and Aggregate hold a cursor over      *)
(* several driver calls: each is three operators (the call up to the      *)
(* loop, one pass of the loop, the deferred Close and the return) and     *)
(* three actions, and the calls of other goroutines on the same Model     *)
(* fall between them.                                                     *)
(***************************************************************************)
EXTENDS Integers, Sequences, FiniteSets, TLC

VARIABLES
    store,        \* the collection: a sequence of BSON documents
    before,       \* the collection when the call in last began
    last,         \* the call followed: operation, arguments, locals, returns
    openCursors,  \* cursors obtained from the store and not closed
    conn,         \* the DatabaseConnector's fields
    clients,      \* clients created by mongo.Connect and never released
    connLast      \* what the last Connect returned

vars == <<store, before, last, openCursors, conn, clients, connLast>>
modelVars == <<store, before, last, openCursors>>
connVars == <<conn, clients, connLast>>

\* The most documents the collection holds.
MaxDocs == 2
\* The most Connect calls on one connector.
MaxConnects == 2
\* The most calls of other goroutines that fall inside one FindMany or
\* Aggregate.
MaxOthers == 1

-----------------------------------------------------------------------------
(* Go errors.  nil is the empty sequence; fmt.Errorf("ctx: %w", err) puts   *)
(* the context in front of the wrapped chain; the last element is the      *)
(* error the driver raised.                                                *)

Nil == <<>>
Wrap(ctx, err) == <<ctx>> \o err
Cause(err) == err[Len(err)]

ErrNoDocuments == <<"mongo.ErrNoDocuments">>
ErrDuplicateKey == <<"WriteException:DuplicateKey">>
ErrImmutableField == <<"WriteException:ImmutableField">>
ErrCommand == <<"CommandError">>
ErrNetwork == <<"NetworkError">>
ErrDecode == <<"DecodeError">>
ErrConnect == <<"ConnectError">>

-----------------------------------------------------------------------------
(* Documents.                                                              *)

\* The keys a caller assigns; "" is an ID left unset.
Ids == {"1", "2"}
Ages == {30, 31}
Positions == {"QA", "Tester"}

\* testUser values the caller passes to Create.
Users == [ID : Ids \cup {""}, Age : Ages, Position : Positions]
\* var result T
ZeroUser == [ID |-> "", Age |-> 0, Position |-> ""]
\* var item C
ZeroEmployee == [ID |-> "", Position |-> ""]

BsonString(s) == <<"string", s>>
BsonInt32(n) == <<"int32", n>>
\* An ObjectID the driver generates, named by a number.
BsonObjectID(n) == <<"objectID", n>>

IdValues == {BsonString(i) : i \in Ids}
AgeValues == {BsonInt32(a) : a \in Ages}
PositionValues == {BsonString(p) : p \in Positions}

\* The struct tags of testUser: `_id,omitempty`, age, position.  An ID of ""
\* is left out of the document.
Encode(u) ==
    IF u.ID = ""
    THEN [age |-> BsonInt32(u.Age), position |-> BsonString(u.Position)]
    ELSE [_id |-> BsonString(u.ID), age |-> BsonInt32(u.Age),
          position |-> BsonString(u.Position)]

\* Decode into testUser: the fields are filled in document order and the
\* first value of another type than the field's stops it with an error (an
\* ObjectID does not decode into the string ID).
DecodeUser(d) ==
    IF d._id[1] # "string" THEN [val |-> ZeroUser, err |-> ErrDecode]
    ELSE IF d.age[1] # "int32"
    THEN [val |-> [ZeroUser EXCEPT !.ID = d._id[2]], err |-> ErrDecode]
    ELSE IF d.position[1] # "string"
    THEN [val |-> [ZeroUser EXCEPT !.ID = d._id[2], !.Age = d.age[2]],
          err |-> ErrDecode]
    ELSE [val |-> [ID |-> d._id[2], Age |-> d.age[2], Position |-> d.position[2]],
          err |-> Nil]

\* Decode into testEmployee: _id and position; age has no field and is skipped.
DecodeEmployee(d) ==
    IF d._id[1] # "string" THEN [val |-> ZeroEmployee, err |-> ErrDecode]
    ELSE IF d.position[1] # "string"
    THEN [val |-> [ZeroEmployee EXCEPT !.ID = d._id[2]], err |-> ErrDecode]
    ELSE [val |-> [ID |-> d._id[2], Position |-> d.position[2]], err |-> Nil]

-----------------------------------------------------------------------------
(* Filters, updates, pipelines, options: the payloads the layer forwards.  *)

\* A filter is a sequence of <<field, value>> equalities; <<>> is {}.
MatchAll == <<>>
Filters ==
    {MatchAll}
    \cup {<<<<"_id", v>>>> : v \in IdValues}
    \cup {<<<<"age", v>>>> : v \in AgeValues}
    \cup {<<<<"position", v>>>> : v \in PositionValues}

Matches(d, filter) == \A i \in 1..Len(filter) : d[filter[i][1]] = filter[i][2]

Matching(coll, filter) ==
    LET Test(d) == Matches(d, filter) IN SelectSeq(coll, Test)

\* An update is {"$set": {field: value}}.
Updates ==
    [field : {"age"}, value : {BsonInt32(31)}]
    \cup [field : {"position"}, value : {BsonString("Tester")}]
    \cup [field : {"_id"}, value : {BsonString("1")}]
NoUpdate == [field |-> "", value |-> <<"null", 0>>]

ApplySet(d, update) == [d EXCEPT ![update.field] = update.value]

\* options.Find(), options.FindOne(), options.UpdateOne(), options.UpdateMany():
\* the option structs with nothing set.
DefaultOptions == [limit |-> 0, skip |-> 0, comment |-> ""]
OptionA == [limit |-> 1, skip |-> 0, comment |-> "a"]
OptionB == [limit |-> 0, skip |-> 1, comment |-> "b"]
OptionLists == {<<>>, <<OptionA>>, <<OptionB, OptionA>>}
UpdateOptionLists == {<<>>, <<OptionA>>}

\* A pipeline is a sequence of stages.
MatchStage(filter) == [stage |-> "$match", filter |-> filter, n |-> 0]
LimitStage(n) == [stage |-> "$limit", filter |-> MatchAll, n |-> n]
ProjectStage == [stage |-> "$project", filter |-> MatchAll, n |-> 0]
BogusStage == [stage |-> "$bogus", filter |-> MatchAll, n |-> 0]
Pipelines ==
    {<<>>, <<ProjectStage>>, <<BogusStage>>, <<LimitStage(1)>>}
    \cup {<<MatchStage(<<<<"position", v>>>>)>> : v \in PositionValues}
    \cup {<<MatchStage(<<<<"position", BsonString("QA")>>>>), ProjectStage>>,
          <<LimitStage(1), MatchStage(<<<<"age", BsonInt32(31)>>>>)>>,
          <<MatchStage(<<<<"age", BsonInt32(31)>>>>), LimitStage(1)>>}

Min(a, b) == IF a < b THEN a ELSE b

-----------------------------------------------------------------------------
(* The store, as the driver shows it to the handlers.  fault is what the   *)
(* environment does to the call: "none", "exec" (the store or the          *)
(* transport fails the operation) or, for cursor.Next, "iter" (the cursor  *)
(* breaks).                                                                *)

Faults == {"none", "exec"}
NextFaults == {"none", "iter"}

\* collection.FindOne(ctx, filter, o): the first match after o.skip.
DriverFindOne(coll, filter, o, fault) ==
    LET rows == Matching(coll, filter)
    IN  IF fault = "exec" THEN [doc |-> <<>>, err |-> ErrNetwork]
        ELSE IF Len(rows) <= o.skip THEN [doc |-> <<>>, err |-> ErrNoDocuments]
        ELSE [doc |-> <<rows[o.skip + 1]>>, err |-> Nil]

\* The documents the store puts in the first reply of a find or aggregate
\* command that asks for no batch size (the handlers never do: the options
\* of FindMany are the defaults and Aggregate passes none).
FirstBatch == 101

\* A cursor of the driver: the documents of the last reply not yet handed
\* out, the document Next stopped at, whether the store still holds the
\* cursor (its id is not 0), the _ids of the documents received, and Err().
NoCursor == [batch |-> <<>>, current |-> <<>>, id |-> 0, seen |-> {}, err |-> Nil]

DocIds(rows) == {rows[i]._id : i \in 1..Len(rows)}

\* The cursor a find or aggregate command returns for the rows it selects.
NewCursor(rows) ==
    LET first == SubSeq(rows, 1, Min(FirstBatch, Len(rows)))
    IN  [batch |-> first, current |-> <<>>,
         id |-> IF Len(rows) > FirstBatch THEN 1 ELSE 0,
         seen |-> DocIds(first), err |-> Nil]

\* The documents a find selects: the matches in store order, after o.skip and
\* up to o.limit of them (0: no limit).
FindRows(coll, filter, o) ==
    LET all == Matching(coll, filter)
        hi == IF o.limit = 0 THEN Len(all) ELSE Min(Len(all), o.skip + o.limit)
    IN  SubSeq(all, o.skip + 1, hi)

\* collection.Find(ctx, filter, o): a cursor, or an error and no cursor.
DriverFind(coll, filter, o, fault) ==
    IF fault = "exec" THEN [cursor |-> NoCursor, err |-> ErrNetwork]
    ELSE [cursor |-> NewCursor(FindRows(coll, filter, o)), err |-> Nil]

\* Whether cursor.Next can fail: it has a document of the reply to read, or a
\* getMore to send.  With neither it reports false and no error.
CanBreak(c) == c.batch # <<>> \/ c.id # 0

\* cursor.Next(ctx).  A document of the reply held is handed out without a
\* call to the store.  When none is left and the store still holds the
\* cursor, getMore fetches what the command selects in the collection as it
\* is by then (rows) and has not been received (its reply has no limit on
\* the number of documents).  A cursor that breaks reports false and keeps
\* the error for Err().
CursorNext(c, rows, fault) ==
    LET Unseen(d) == d._id \notin c.seen
        more == SelectSeq(rows, Unseen)
    IN  IF fault = "iter"
        THEN [ok |-> FALSE,
              cursor |-> [c EXCEPT !.batch = <<>>, !.id = 0, !.err = ErrNetwork]]
        ELSE IF c.batch # <<>>
        THEN [ok |-> TRUE,
              cursor |-> [c EXCEPT !.current = <<Head(c.batch)>>,
                                   !.batch = Tail(c.batch)]]
        ELSE IF c.id = 0 \/ more = <<>>
        THEN [ok |-> FALSE, cursor |-> [c EXCEPT !.id = 0]]
        ELSE [ok |-> TRUE,
              cursor |-> [c EXCEPT !.current = <<Head(more)>>,
                                   !.batch = Tail(more), !.id = 0,
                                   !.seen = @ \cup DocIds(more)]]

\* The ObjectID the driver generates for a document without _id: one no
\* document of the collection has (the lowest free number names it).
NewObjectID(coll) ==
    LET used == {coll[i]._id[2] :
                    i \in {j \in 1..Len(coll) : coll[j]._id[1] = "objectID"}}
    IN  BsonObjectID(CHOOSE n \in 1..(Len(coll) + 1) :
                        n \notin used /\ \A m \in 1..(n - 1) : m \in used)

\* collection.InsertOne(ctx, v): a document without _id gets a generated
\* ObjectID; _id is unique.
DriverInsertOne(coll, d, fault) ==
    LET doc == IF "_id" \in DOMAIN d THEN d
               ELSE [_id |-> NewObjectID(coll), age |-> d.age,
                     position |-> d.position]
    IN  IF fault = "exec" THEN [coll |-> coll, err |-> ErrNetwork]
        ELSE IF \E i \in 1..Len(coll) : coll[i]._id = doc._id
        THEN [coll |-> coll, err |-> ErrDuplicateKey]
        ELSE [coll |-> Append(coll, doc), err |-> Nil]

\* Whether $set leaves the document's _id as it is.
KeepsId(d, update) == update.field # "_id" \/ update.value = d._id

\* collection.UpdateOne(ctx, filter, update, o): the first match, in place.
DriverUpdateOne(coll, filter, update, o, fault) ==
    LET hit == {i \in 1..Len(coll) : Matches(coll[i], filter)}
        first == CHOOSE i \in hit : \A j \in hit : i <= j
    IN  IF fault = "exec" THEN [coll |-> coll, err |-> ErrNetwork, matched |-> 0, cursors |-> 0]
        ELSE IF hit = {} THEN [coll |-> coll, err |-> Nil, matched |-> 0, cursors |-> 0]
        ELSE IF ~KeepsId(coll[first], update)
        THEN [coll |-> coll, err |-> ErrImmutableField, matched |-> 0, cursors |-> 0]
        ELSE [coll |-> [coll EXCEPT ![first] = ApplySet(coll[first], update)],
              err |-> Nil, matched |-> 1]

\* collection.UpdateMany(ctx, filter, update, o): every match, in place.
DriverUpdateMany(coll, filter, update, o, fault) ==
    LET hit == {i \in 1..Len(coll) : Matches(coll[i], filter)}
    IN  IF fault = "exec" THEN [coll |-> coll, err |-> ErrNetwork, matched |-> 0, cursors |-> 0]
        ELSE IF \E i \in hit : ~KeepsId(coll[i], update)
        THEN [coll |-> coll, err |-> ErrImmutableField, matched |-> 0, cursors |-> 0]
        ELSE [coll |-> [i \in 1..Len(coll) |->
                          IF i \in hit THEN ApplySet(coll[i], update) ELSE coll[i]],
              err |-> Nil, matched |-> Cardinality(hit)]

\* collection.DeleteOne(ctx, filter): the first match.
DriverDeleteOne(coll, filter, fault) ==
    LET hit == {i \in 1..Len(coll) : Matches(coll[i], filter)}
        first == CHOOSE i \in hit : \A j \in hit : i <= j
    IN  IF fault = "exec" THEN [coll |-> coll, err |-> ErrNetwork]
        ELSE IF hit = {} THEN [coll |-> coll, err |-> Nil]
        ELSE [coll |-> SubSeq(coll, 1, first - 1) \o SubSeq(coll, first + 1, Len(coll)),
              err |-> Nil]

\* collection.DeleteMany(ctx, filter): every match.
DriverDeleteMany(coll, filter, fault) ==
    LET Keep(d) == ~Matches(d, filter)
    IN  IF fault = "exec" THEN [coll |-> coll, err |-> ErrNetwork]
        ELSE [coll |-> SelectSeq(coll, Keep), err |-> Nil]

\* One stage of a pipeline on the rows of the stage before it.
RunStage(rows, st) ==
    IF st.stage = "$match" THEN Matching(rows, st.filter)
    ELSE IF st.stage = "$limit" THEN SubSeq(rows, 1, Min(st.n, Len(rows)))
    ELSE [i \in 1..Len(rows) |-> [rows[i] EXCEPT !.age = <<"null", 0>>]]

RECURSIVE RunPipeline(_, _, _)
RunPipeline(rows, pipeline, i) ==
    IF i > Len(pipeline) THEN rows
    ELSE RunPipeline(RunStage(rows, pipeline[i]), pipeline, i + 1)

\* collection.Aggregate(ctx, pipeline): a cursor over the rows of the stages
\* in the order given; the store rejects a pipeline with a stage it does not
\* know.
DriverAggregate(coll, pipeline, fault) ==
    IF fault = "exec" THEN [cursor |-> NoCursor, err |-> ErrNetwork]
    ELSE IF \E i \in 1..Len(pipeline) : pipeline[i].stage = "$bogus"
    THEN [cursor |-> NoCursor, err |-> ErrCommand]
    ELSE [cursor |-> NewCursor(RunPipeline(coll, pipeline, 1)), err |-> Nil]

-----------------------------------------------------------------------------
(* The handlers of mongoModel.  Each returns                                *)
(*   val, slice, err  what the caller gets (a Go slice is nil or not)       *)
(*   coll             the collection afterwards                             *)
(*   sent             the commands forwarded to the store, with the options *)
(*                    in effect                                             *)
(*   trace            the driver calls made, in order                       *)
(*   storeErr, point  the failure the driver raised and where               *)
(*   matched          the store's MatchedCount, which the handler drops     *)
(*   cursors          the cursors the store handed to the handler           *)
(* FindMany and Aggregate are followed statement by statement: their        *)
(* record holds, instead of coll, the locals of the call in progress:       *)
(*   pc               "loop" (at cursor.Next), "defer" (a return statement  *)
(*                    has set the results; the deferred calls are to run)   *)
(*                    or "returned"                                         *)
(*   cursor, results  the locals of these names                             *)
(*   deferred         the calls registered with defer                       *)

NilSlice == [isNil |-> TRUE, elems |-> <<>>]
\* A variant: var results []T, which is nil until something is appended.
MakeSliceNil == [isNil |-> TRUE, elems |-> <<>>]

\* results := make([]T, 0)
MakeSlice == [isNil |-> FALSE, elems |-> <<>>]
\* append(results, item)
AppendSlice(s, item) == [isNil |-> FALSE, elems |-> Append(s.elems, item)]

Command(cmd, o) == [cmd |-> cmd, opts |-> o]

\* fn := func(o *T) error { if len(opts) > 0 { o = opts[0] }; return nil }
\* called by the driver on the option struct o it is building: the
\* assignment rebinds fn's own parameter, and the struct is what it was.
setOptions(opts, o) ==
    LET local == IF Len(opts) > 0 THEN opts[1] ELSE o
    IN  o

\* xOpts := options.X(); xOpts.Opts = []func(*XOptions) error{setOptions(opts...)}
\* The driver runs the builder's setters on an empty option struct.
BuildOptions(opts) == setOptions(opts, DefaultOptions)

\* A variant: the decoded document is lost and the zero value returned.
FindOneZero(coll, filter, opts, fault) ==
    LET findOneOpts == BuildOptions(opts)
        r == DriverFindOne(coll, filter, findOneOpts, fault)
        d == IF r.err # Nil THEN [val |-> ZeroUser, err |-> r.err]
             ELSE DecodeUser(r.doc[1])
    IN  [val |-> ZeroUser, slice |-> NilSlice, err |-> d.err, coll |-> coll,
         sent |-> <<Command("findOne", findOneOpts)>>,
         trace |-> <<"FindOne", "Decode">>,
         storeErr |-> d.err,
         point |-> IF r.err # Nil THEN "exec" ELSE IF d.err # Nil THEN "decode"
                   ELSE "none",
         matched |-> 0, cursors |-> 0]

FindOne(coll, filter, opts, fault) ==
    LET findOneOpts == BuildOptions(opts)
        r == DriverFindOne(coll, filter, findOneOpts, fault)
        d == IF r.err # Nil THEN [val |-> ZeroUser, err |-> r.err]
             ELSE DecodeUser(r.doc[1])
    IN  [val |-> d.val, slice |-> NilSlice, err |-> d.err, coll |-> coll,
         sent |-> <<Command("findOne", findOneOpts)>>,
         trace |-> <<"FindOne", "Decode">>,
         storeErr |-> d.err,
         point |-> IF r.err # Nil THEN "exec" ELSE IF d.err # Nil THEN "decode"
                   ELSE "none",
         matched |-> 0, cursors |-> 0]

\* A variant: no deferred Close.
FindManyNoDefer == <<>>

\* defer cursor.Close(ctx): runs as the handler returns.
FindManyDeferred == <<"Close">>

\* FindMany from its call to the loop: the options, collection.Find, the
\* return when Find failed, the defer, make.
FindManyOpen(coll, filter, opts, fault) ==
    LET findOpts == BuildOptions(opts)
        r == DriverFind(coll, filter, findOpts, fault)
    IN  IF r.err # Nil
        THEN [pc |-> "returned", cursor |-> NoCursor, results |-> NilSlice,
              deferred |-> <<>>, val |-> ZeroUser, slice |-> NilSlice,
              err |-> r.err, sent |-> <<Command("find", findOpts)>>,
              trace |-> <<"Find">>, storeErr |-> r.err, point |-> "exec",
              matched |-> 0, cursors |-> 0]
        ELSE [pc |-> "loop", cursor |-> r.cursor, results |-> MakeSlice,
              deferred |-> FindManyDeferred, val |-> ZeroUser,
              slice |-> NilSlice, err |-> Nil,
              sent |-> <<Command("find", findOpts)>>, trace |-> <<"Find">>,
              storeErr |-> Nil, point |-> "none", matched |-> 0, cursors |-> 1]

\* One cursor.Next(ctx) of FindMany's loop and what follows it: the body of
\* the loop when Next reported a document, the statements after the loop
\* when it did not.  rows is what the find selects in the collection as it
\* is at this Next.
FindManyLoop(f, rows, fault) ==
    LET n == CursorNext(f.cursor, rows, fault)
        item == DecodeUser(n.cursor.current[1])
    IN  IF n.ok
        THEN IF item.err # Nil
             THEN [f EXCEPT !.pc = "defer", !.cursor = n.cursor,
                            !.slice = NilSlice, !.err = item.err,
                            !.trace = @ \o <<"Next", "Decode">>,
                            !.storeErr = item.err, !.point = "decode"]
             ELSE [f EXCEPT !.cursor = n.cursor,
                            !.results = AppendSlice(@, item.val),
                            !.trace = @ \o <<"Next", "Decode">>]
        ELSE IF n.cursor.err # Nil
        THEN [f EXCEPT !.pc = "defer", !.cursor = n.cursor,
                       !.slice = NilSlice, !.err = n.cursor.err,
                       !.trace = @ \o <<"Next", "Err">>,
                       !.storeErr = n.cursor.err, !.point = "iter"]
        ELSE [f EXCEPT !.pc = "defer", !.cursor = n.cursor,
                       !.slice = f.results, !.err = Nil,
                       !.trace = @ \o <<"Next", "Err">>]

\* The deferred calls run and FindMany returns.
FindManyExit(f) ==
    [f EXCEPT !.pc = "returned", !.trace = @ \o f.deferred, !.deferred = <<>>]

\* FindMany from the loop to its return with no call of another goroutine in
\* between and a cursor that does not break.
RECURSIVE FindManyRun(_, _)
FindManyRun(f, rows) ==
    IF f.pc = "loop" THEN FindManyRun(FindManyLoop(f, rows, "none"), rows)
    ELSE IF f.pc = "defer" THEN FindManyExit(f)
    ELSE f

FindMany(coll, filter, opts, fault) ==
    FindManyRun(FindManyOpen(coll, filter, opts, fault),
                FindRows(coll, filter, BuildOptions(opts)))

Create(coll, v, fault) ==
    LET r == DriverInsertOne(coll, Encode(v), fault)
    IN  [val |-> ZeroUser, slice |-> NilSlice, err |-> r.err, coll |-> r.coll,
         sent |-> <<Command("insert", DefaultOptions)>>, trace |-> <<"InsertOne">>,
         storeErr |-> r.err, point |-> IF r.err # Nil THEN "exec" ELSE "none",
         matched |-> 0, cursors |-> 0]

\* A variant: the collection is left as it was.
UpdateOneNoChange(coll, filter, update, opts, fault) ==
    LET updateOneOpts == BuildOptions(opts)
        r == DriverUpdateOne(coll, filter, update, updateOneOpts, fault)
    IN  [val |-> ZeroUser, slice |-> NilSlice, err |-> r.err, coll |-> coll,
         sent |-> <<Command("updateOne", updateOneOpts)>>,
         trace |-> <<"UpdateOne">>, storeErr |-> r.err,
         point |-> IF r.err # Nil THEN "exec" ELSE "none", matched |-> r.matched,
         cursors |-> 0]

UpdateOne(coll, filter, update, opts, fault) ==
    LET updateOneOpts == BuildOptions(opts)
        r == DriverUpdateOne(coll, filter, update, updateOneOpts, fault)
    IN  [val |-> ZeroUser, slice |-> NilSlice, err |-> r.err, coll |-> r.coll,
         sent |-> <<Command("updateOne", updateOneOpts)>>,
         trace |-> <<"UpdateOne">>, storeErr |-> r.err,
         point |-> IF r.err # Nil THEN "exec" ELSE "none", matched |-> r.matched, cursors |-> 0]

\* A variant: the handler calls collection.UpdateOne.
UpdateManyFirstOnly(coll, filter, update, opts, fault) ==
    LET updateManyOpts == BuildOptions(opts)
        r == DriverUpdateOne(coll, filter, update, updateManyOpts, fault)
    IN  [val |-> ZeroUser, slice |-> NilSlice, err |-> r.err, coll |-> r.coll,
         sent |-> <<Command("updateMany", updateManyOpts)>>,
         trace |-> <<"UpdateMany">>, storeErr |-> r.err,
         point |-> IF r.err # Nil THEN "exec" ELSE "none", matched |-> r.matched,
         cursors |-> 0]

UpdateMany(coll, filter, update, opts, fault) ==
    LET updateManyOpts == BuildOptions(opts)
        r == DriverUpdateMany(coll, filter, update, updateManyOpts, fault)
    IN  [val |-> ZeroUser, slice |-> NilSlice, err |-> r.err, coll |-> r.coll,
         sent |-> <<Command("updateMany", updateManyOpts)>>,
         trace |-> <<"UpdateMany">>, storeErr |-> r.err,
         point |-> IF r.err # Nil THEN "exec" ELSE "none", matched |-> r.matched, cursors |-> 0]

DeleteOne(coll, filter, fault) ==
    LET r == DriverDeleteOne(coll, filter, fault)
    IN  [val |-> ZeroUser, slice |-> NilSlice, err |-> r.err, coll |-> r.coll,
         sent |-> <<Command("deleteOne", DefaultOptions)>>,
         trace |-> <<"DeleteOne">>, storeErr |-> r.err,
         point |-> IF r.err # Nil THEN "exec" ELSE "none", matched |-> 0, cursors |-> 0]

\* A variant: the handler calls collection.DeleteOne.
DeleteManyFirstOnly(coll, filter, fault) ==
    LET r == DriverDeleteOne(coll, filter, fault)
    IN  [val |-> ZeroUser, slice |-> NilSlice, err |-> r.err, coll |-> r.coll,
         sent |-> <<Command("deleteMany", DefaultOptions)>>,
         trace |-> <<"DeleteMany">>, storeErr |-> r.err,
         point |-> IF r.err # Nil THEN "exec" ELSE "none", matched |-> 0,
         cursors |-> 0]

DeleteMany(coll, filter, fault) ==
    LET r == DriverDeleteMany(coll, filter, fault)
    IN  [val |-> ZeroUser, slice |-> NilSlice, err |-> r.err, coll |-> r.coll,
         sent |-> <<Command("deleteMany", DefaultOptions)>>,
         trace |-> <<"DeleteMany">>, storeErr |-> r.err,
         point |-> IF r.err # Nil THEN "exec" ELSE "none", matched |-> 0, cursors |-> 0]

\* defer cursor.Close(ctx): runs as the handler returns.
AggregateDeferred == <<"Close">>

\* A variant: no check for zero rows.
AggregateReturnAny(results) == [slice |-> results, err |-> Nil]

\* if len(results) == 0 { return nil, mongo.ErrNoDocuments }; return results, nil
AggregateReturn(results) ==
    IF Len(results.elems) = 0 THEN [slice |-> NilSlice, err |-> ErrNoDocuments]
    ELSE [slice |-> results, err |-> Nil]

\* Aggregate from its call to the loop: collection.Aggregate, the return
\* when it failed, the defer, make.
AggregateOpen(coll, pipeline, fault) ==
    LET r == DriverAggregate(coll, pipeline, fault)
    IN  IF r.err # Nil
        THEN [pc |-> "returned", cursor |-> NoCursor, results |-> NilSlice,
              deferred |-> <<>>, val |-> ZeroUser, slice |-> NilSlice,
              err |-> Wrap("failed to execute aggregation", r.err),
              sent |-> <<Command("aggregate", DefaultOptions)>>,
              trace |-> <<"Aggregate">>, storeErr |-> r.err, point |-> "exec",
              matched |-> 0, cursors |-> 0]
        ELSE [pc |-> "loop", cursor |-> r.cursor, results |-> MakeSlice,
              deferred |-> AggregateDeferred, val |-> ZeroUser,
              slice |-> NilSlice, err |-> Nil,
              sent |-> <<Command("aggregate", DefaultOptions)>>,
              trace |-> <<"Aggregate">>, storeErr |-> Nil, point |-> "none",
              matched |-> 0, cursors |-> 1]

\* One cursor.Next(ctx) of Aggregate's loop and what follows it: the body of
\* the loop when Next reported a row, the statements after the loop when it
\* did not.  rows is what the pipeline produces on the collection as it is
\* at this Next.
AggregateLoop(f, rows, fault) ==
    LET n == CursorNext(f.cursor, rows, fault)
        item == DecodeEmployee(n.cursor.current[1])
    IN  IF n.ok
        THEN IF item.err # Nil
             THEN [f EXCEPT !.pc = "defer", !.cursor = n.cursor,
                            !.slice = NilSlice,
                            !.err = Wrap("failed to decode aggregation result",
                                         item.err),
                            !.trace = @ \o <<"Next", "Decode">>,
                            !.storeErr = item.err, !.point = "decode"]
             ELSE [f EXCEPT !.cursor = n.cursor,
                            !.results = AppendSlice(@, item.val),
                            !.trace = @ \o <<"Next", "Decode">>]
        ELSE IF n.cursor.err # Nil
        THEN [f EXCEPT !.pc = "defer", !.cursor = n.cursor,
                       !.slice = NilSlice, !.err = n.cursor.err,
                       !.trace = @ \o <<"Next", "Err">>,
                       !.storeErr = n.cursor.err, !.point = "iter"]
        ELSE [f EXCEPT !.pc = "defer", !.cursor = n.cursor,
                       !.slice = AggregateReturn(f.results).slice,
                       !.err = AggregateReturn(f.results).err,
                       !.trace = @ \o <<"Next", "Err">>]

\* The deferred calls run and Aggregate returns.
AggregateExit(f) ==
    [f EXCEPT !.pc = "returned", !.trace = @ \o f.deferred, !.deferred = <<>>]

-----------------------------------------------------------------------------
(* The connector.                                                          *)

DatabaseOptionFields ==
    {"BSONOptions", "ReadConcern", "ReadPreference", "Registry", "WriteConcern"}
\* An options.DatabaseOptions: for each field, whether it is set (not nil).
DatabaseOptionSets == [DatabaseOptionFields -> BOOLEAN]
\* options.Database(): nothing set.
DefaultDatabaseOptions == [f \in DatabaseOptionFields |-> FALSE]

\* dbOpts := options.Database(); each field of opts that is not nil is set.
BuildDatabaseOptions(opts) ==
    [f \in DatabaseOptionFields |-> IF opts[f] THEN TRUE ELSE DefaultDatabaseOptions[f]]

\* options.Client().ApplyURI(c.URI), replaced by c.ClientOptions when set.
ClientConfig(c) ==
    IF c.ClientOptions # "nil" THEN c.ClientOptions ELSE c.URI

\* mongo.Connect(opts): a configuration that does not validate, or a failure
\* to start the client, is an error and no client.
DriverConnect(config, fault) ==
    IF config = "invalid" \/ fault = "exec" THEN [created |-> 0, err |-> ErrConnect]
    ELSE [created |-> 1, err |-> Nil]

NoDatabase == [client |-> 0, name |-> "", opts |-> DefaultDatabaseOptions]

\* Connect on connector c with n clients created so far: the handle and error
\* returned, the connector afterwards, the clients afterwards.  A client is
\* named by its number in the order of creation; 0 is the nil client.
Connect(c, n, fault) ==
    LET opts == ClientConfig(c)
        r == DriverConnect(opts, fault)
        client == n + r.created
    IN  IF r.err # Nil
        THEN [db |-> NoDatabase, isNil |-> TRUE, err |-> r.err, conn |-> c,
              clients |-> n]
        ELSE [db |-> [client |-> client, name |-> c.DatabaseName,
                      opts |-> IF c.Options.set
                               THEN BuildDatabaseOptions(c.Options.fields)
                               ELSE DefaultDatabaseOptions],
              isNil |-> FALSE, err |-> Nil,
              conn |-> [c EXCEPT !.Client = client], clients |-> client]

-----------------------------------------------------------------------------
(* The state machine of a Model in use by several goroutines, on a         *)
(* database handle a connector returned.  One call at a time is followed   *)
(* in last, from its start to its return.  An operation that makes one     *)
(* driver call is one action.  FindMany and Aggregate are three actions    *)
(* each, and while one of them is between two of its actions the other     *)
(* goroutines make their calls: these change the collection and what they  *)
(* return goes to their callers.  (A FindMany or Aggregate of another      *)
(* goroutine leaves the collection as it is and is not followed.)          *)

Idle ==
    [op |-> "idle", filter |-> MatchAll, update |-> NoUpdate, doc |-> ZeroUser,
     opts |-> <<>>, pipeline |-> <<>>, fault |-> "none", others |-> 0,
     ret |-> [pc |-> "returned", cursor |-> NoCursor, results |-> NilSlice,
              deferred |-> <<>>, val |-> ZeroUser, slice |-> NilSlice,
              err |-> Nil, sent |-> <<>>, trace |-> <<>>, storeErr |-> Nil,
              point |-> "none", matched |-> 0, cursors |-> 0]]

Count(trace, e) == Cardinality({i \in DOMAIN trace : trace[i] = e})

\* What a handler that makes one driver call returns, as the record of a
\* call that has returned.
Returned(ret) ==
    [pc |-> "returned", cursor |-> NoCursor, results |-> NilSlice,
     deferred |-> <<>>, val |-> ret.val, slice |-> ret.slice, err |-> ret.err,
     sent |-> ret.sent, trace |-> ret.trace, storeErr |-> ret.storeErr,
     point |-> ret.point, matched |-> ret.matched, cursors |-> ret.cursors]

\* The call in last is FindMany or Aggregate between its call and its return.
InFlight == last.ret.pc # "returned"

\* A call of a handler that makes one driver call, run to its return: the
\* call followed next when none is, a call of another goroutine when
\* FindMany or Aggregate is in flight.
Invoke(call, ret) ==
    \/ /\ last.op = "idle"
       /\ last' = [call EXCEPT !.ret = Returned(ret)]
       /\ before' = store
       /\ store' = ret.coll
       /\ UNCHANGED openCursors
       /\ UNCHANGED connVars
    \/ /\ InFlight
       /\ last.others < MaxOthers
       /\ last' = [last EXCEPT !.others = @ + 1]
       /\ store' = ret.coll
       /\ UNCHANGED <<before, openCursors>>
       /\ UNCHANGED connVars

\* func NewConnector(databaseName, uri)
NewConnector(databaseName, uri) ==
    [DatabaseName |-> databaseName, URI |-> uri,
     Options |-> [set |-> FALSE, fields |-> DefaultDatabaseOptions],
     ClientOptions |-> "nil", Client |-> 0]

NoConnect == [db |-> NoDatabase, isNil |-> TRUE, err |-> Nil, fault |-> "none"]

\* db, err := NewConnector(dbName, uri).Connect(); the collection is dropped;
\* model := New[testUser, testEmployee](db, "users")
Init ==
    LET r == Connect(NewConnector("db", "valid"), 0, "none")
    IN  /\ store = <<>>
        /\ before = <<>>
        /\ last = Idle
        /\ openCursors = 0
        /\ conn = r.conn
        /\ clients = r.clients
        /\ connLast = [db |-> r.db, isNil |-> r.isNil, err |-> r.err, fault |-> "none"]

FindOneCall ==
    \E filter \in Filters, opts \in OptionLists, fault \in Faults :
        Invoke([Idle EXCEPT !.op = "FindOne", !.filter = filter, !.opts = opts,
                            !.fault = fault],
               FindOne(store, filter, opts, fault))

\* FindMany is called and runs to its loop, or returns the error of Find.
FindManyCall ==
    \E filter \in Filters, opts \in OptionLists, fault \in Faults :
        LET f == FindManyOpen(store, filter, opts, fault)
        IN  /\ last.op = "idle"
            /\ last' = [Idle EXCEPT !.op = "FindMany", !.filter = filter,
                                    !.opts = opts, !.fault = fault, !.ret = f]
            /\ before' = store
            /\ openCursors' = openCursors + f.cursors
            /\ UNCHANGED store
            /\ UNCHANGED connVars

\* cursor.Next in FindMany, and the pass of the loop or the return statement
\* it leads to.
FindManyNext ==
    \E fault \in NextFaults :
        LET rows == FindRows(store, last.filter, BuildOptions(last.opts))
            f == FindManyLoop(last.ret, rows, fault)
        IN  /\ last.op = "FindMany"
            /\ last.ret.pc = "loop"
            /\ fault = "iter" => CanBreak(last.ret.cursor)
            /\ last' = [last EXCEPT !.ret = f]
            /\ UNCHANGED <<store, before, openCursors>>
            /\ UNCHANGED connVars

\* The deferred calls of FindMany run and it returns.
FindManyClose ==
    /\ last.op = "FindMany"
    /\ last.ret.pc = "defer"
    /\ last' = [last EXCEPT !.ret = FindManyExit(last.ret)]
    /\ openCursors' = openCursors - Count(last.ret.deferred, "Close")
    /\ UNCHANGED <<store, before>>
    /\ UNCHANGED connVars

CreateCall ==
    \E v \in Users, fault \in Faults :
        /\ Len(store) < MaxDocs
        /\ Invoke([Idle EXCEPT !.op = "Create", !.doc = v, !.fault = fault],
                  Create(store, v, fault))

UpdateOneCall ==
    \E filter \in Filters, update \in Updates, opts \in UpdateOptionLists,
       fault \in Faults :
        Invoke([Idle EXCEPT !.op = "UpdateOne", !.filter = filter,
                            !.update = update, !.opts = opts, !.fault = fault],
               UpdateOne(store, filter, update, opts, fault))

UpdateManyCall ==
    \E filter \in Filters, update \in Updates, opts \in UpdateOptionLists,
       fault \in Faults :
        Invoke([Idle EXCEPT !.op = "UpdateMany", !.filter = filter,
                            !.update = update, !.opts = opts, !.fault = fault],
               UpdateMany(store, filter, update, opts, fault))

DeleteOneCall ==
    \E filter \in Filters, fault \in Faults :
        Invoke([Idle EXCEPT !.op = "DeleteOne", !.filter = filter, !.fault = fault],
               DeleteOne(store, filter, fault))

DeleteManyCall ==
    \E filter \in Filters, fault \in Faults :
        Invoke([Idle EXCEPT !.op = "DeleteMany", !.filter = filter, !.fault = fault],
               DeleteMany(store, filter, fault))

\* Aggregate is called and runs to its loop, or returns the error of
\* collection.Aggregate.
AggregateCall ==
    \E pipeline \in Pipelines, fault \in Faults :
        LET f == AggregateOpen(store, pipeline, fault)
        IN  /\ last.op = "idle"
            /\ last' = [Idle EXCEPT !.op = "Aggregate", !.pipeline = pipeline,
                                    !.fault = fault, !.ret = f]
            /\ before' = store
            /\ openCursors' = openCursors + f.cursors
            /\ UNCHANGED store
            /\ UNCHANGED connVars

\* cursor.Next in Aggregate, and the pass of the loop or the return statement
\* it leads to.
AggregateNext ==
    \E fault \in NextFaults :
        LET rows == RunPipeline(store, last.pipeline, 1)
            f == AggregateLoop(last.ret, rows, fault)
        IN  /\ last.op = "Aggregate"
            /\ last.ret.pc = "loop"
            /\ fault = "iter" => CanBreak(last.ret.cursor)
            /\ last' = [last EXCEPT !.ret = f]
            /\ UNCHANGED <<store, before, openCursors>>
            /\ UNCHANGED connVars

\* The deferred calls of Aggregate run and it returns.
AggregateClose ==
    /\ last.op = "Aggregate"
    /\ last.ret.pc = "defer"
    /\ last' = [last EXCEPT !.ret = AggregateExit(last.ret)]
    /\ openCursors' = openCursors - Count(last.ret.deferred, "Close")
    /\ UNCHANGED <<store, before>>
    /\ UNCHANGED connVars

\* The caller has the returned values and goes on to its next call.
Return ==
    /\ last.op # "idle"
    /\ ~InFlight
    /\ last' = Idle
    /\ before' = store
    /\ UNCHANGED <<store, openCursors>>
    /\ UNCHANGED connVars

Next ==
    \/ FindOneCall
    \/ FindManyCall
    \/ FindManyNext
    \/ FindManyClose
    \/ CreateCall
    \/ UpdateOneCall
    \/ UpdateManyCall
    \/ DeleteOneCall
    \/ DeleteManyCall
    \/ AggregateCall
    \/ AggregateNext
    \/ AggregateClose
    \/ Return

Spec == Init /\ [][Next]_vars

-----------------------------------------------------------------------------
(* The state machine of a connector: its fields are set by the caller      *)
(* before the first Connect, and Connect may be called again.              *)

ConnectorInit ==
    /\ store = <<>>
    /\ before = <<>>
    /\ last = Idle
    /\ openCursors = 0
    /\ \E uri \in {"valid", "invalid"}, co \in {"nil", "valid", "invalid"},
          set \in BOOLEAN, fields \in DatabaseOptionSets :
            /\ ~set => fields = DefaultDatabaseOptions
            /\ conn = [NewConnector("db", uri) EXCEPT
                         !.ClientOptions = co,
                         !.Options = [set |-> set, fields |-> fields]]
    /\ clients = 0
    /\ connLast = NoConnect

ConnectCall ==
    \E fault \in Faults :
        LET r == Connect(conn, clients, fault)
        IN  /\ clients < MaxConnects
            /\ conn' = r.conn
            /\ clients' = r.clients
            /\ connLast' = [db |-> r.db, isNil |-> r.isNil, err |-> r.err,
                            fault |-> fault]
            /\ UNCHANGED modelVars

ConnectorNext == ConnectCall

ConnectorSpec == ConnectorInit /\ [][ConnectorNext]_vars

-----------------------------------------------------------------------------
(* Properties.                                                             *)

\* The BSON type a field of testUser decodes from.
FieldType(field) == IF field = "age" THEN "int32" ELSE "string"
WellTyped(d) == \A f \in {"_id", "age", "position"} : d[f][1] = FieldType(f)

\* A later call, on a store that does not fail.
ThenFindOne(filter, opts) == FindOne(store, filter, opts, "none")
ThenFindMany(filter, opts) == FindMany(store, filter, opts, "none")

\* The value each field of u holds, the ID included when it is "".
FieldValues(u) ==
    [_id |-> BsonString(u.ID), age |-> BsonInt32(u.Age),
     position |-> BsonString(u.Position)]
KeyFilter(u) == <<<<"_id", BsonString(u.ID)>>>>

\* C1 as stated: for every document d of type T, after Create(d) returns
\* nil, FindOne with a filter that matches d's key, or d's fields, and no
\* other stored document returns nil and a value equal to d in every field.
C1_AsStated ==
    (last.op = "Create" /\ last.ret.err = Nil) =>
        \A filter \in Filters \cup {KeyFilter(last.doc)} :
            (/\ Matches(FieldValues(last.doc), filter)
             /\ Len(Matching(store, filter)) <= 1)
                => /\ ThenFindOne(filter, <<>>).err = Nil
                   /\ ThenFindOne(filter, <<>>).val = last.doc

\* C1: for every document d whose ID the caller has set, after Create(d)
\* returns nil, FindOne with a filter that matches d and no other stored
\* document returns nil and a value equal to d in every field.
C1_CreateFindOneRoundTrip ==
    (last.op = "Create" /\ last.ret.err = Nil /\ last.doc.ID # "") =>
        \A filter \in Filters :
            (Matches(Encode(last.doc), filter) /\ Len(Matching(store, filter)) = 1)
                => /\ ThenFindOne(filter, <<>>).err = Nil
                   /\ ThenFindOne(filter, <<>>).val = last.doc

\* A document with a key of the caller's, created beside one stored under a
\* generated ObjectID, and found again by its key.
C1_Witness ==
    /\ last.op = "Create" /\ last.ret.err = Nil /\ last.doc.ID # ""
    /\ Len(before) >= 1 /\ \E i \in 1..Len(before) : ~WellTyped(before[i])
    /\ ThenFindOne(KeyFilter(last.doc), <<>>).val = last.doc

\* The call in last has returned.
HasReturned(op) == last.op = op /\ last.ret.pc = "returned"

\* The rows a pipeline produces on the collection as it was when
\* collection.Aggregate ran.
RowsOf(pipeline) == RunPipeline(before, pipeline, 1)

\* C2: Aggregate whose pipeline runs without a store error and produces zero
\* rows returns a nil slice and mongo.ErrNoDocuments; Aggregate that returns
\* a nil error returns at least one element.
C2_AggregateNeverEmptySuccess ==
    HasReturned("Aggregate") =>
        /\ (last.ret.storeErr = Nil /\ RowsOf(last.pipeline) = <<>>)
              => (last.ret.slice = NilSlice /\ last.ret.err = ErrNoDocuments)
        /\ last.ret.err = Nil
              => (~last.ret.slice.isNil /\ Len(last.ret.slice.elems) >= 1)

\* A pipeline that matched nothing in a collection that held documents, while
\* another goroutine changed the collection.
C2_Witness ==
    /\ HasReturned("Aggregate") /\ last.ret.storeErr = Nil
    /\ Len(before) >= 1 /\ store # before
    /\ RowsOf(last.pipeline) = <<>>
    /\ last.ret.err = ErrNoDocuments

\* C3: FindMany whose filter matches nothing when Find runs returns, when
\* the store raises no error, an empty slice that is not nil and a nil
\* error, and never ErrNoDocuments; FindMany that returns nil returns
\* exactly the documents that matched when Find ran, decoded, in store order.
C3_FindManyEmptyIsSuccess ==
    HasReturned("FindMany") =>
        LET m == Matching(before, last.filter)
        IN  /\ (m = <<>> /\ last.ret.storeErr = Nil)
                => /\ last.ret.err = Nil
                   /\ ~last.ret.slice.isNil
                   /\ last.ret.slice.elems = <<>>
            /\ m = <<>> => last.ret.err # ErrNoDocuments
            /\ last.ret.err = Nil
                => /\ ~last.ret.slice.isNil
                   /\ Len(last.ret.slice.elems) = Len(m)
                   /\ \A i \in 1..Len(m) :
                        /\ WellTyped(m[i])
                        /\ Encode(last.ret.slice.elems[i]) = m[i]

\* A filter that matched none of the documents of a collection that had
\* some, in a call with options, while another goroutine created a document
\* that matches.
C3_Witness ==
    /\ HasReturned("FindMany") /\ last.ret.storeErr = Nil
    /\ Len(before) >= 1 /\ Matching(before, last.filter) = <<>>
    /\ Matching(store, last.filter) # <<>>
    /\ last.opts # <<>>
    /\ last.ret.err = Nil /\ last.ret.slice.elems = <<>>

\* C4: after UpdateMany(F, update) returns nil, every document that matched F
\* holds the update's value in the update's field and its other fields as
\* before, every other document is as before, and the collection holds as
\* many documents as before.
C4_UpdateManyFrame ==
    (last.op = "UpdateMany" /\ last.ret.err = Nil) =>
        /\ Len(store) = Len(before)
        /\ \A i \in 1..Len(before) :
            IF Matches(before[i], last.filter)
            THEN /\ store[i][last.update.field] = last.update.value
                 /\ \A g \in {"_id", "age", "position"} \ {last.update.field} :
                        store[i][g] = before[i][g]
            ELSE store[i] = before[i]

\* An update that changed a matching document beside one that did not match.
C4_Witness ==
    /\ last.op = "UpdateMany" /\ last.ret.err = Nil
    /\ \E i, j \in 1..Len(before) :
        /\ Matches(before[i], last.filter) /\ store[i] # before[i]
        /\ ~Matches(before[j], last.filter)

\* Whether the Go value u holds the update's value in the update's field.
Reflects(u, update) == Encode(u)[update.field] = update.value

\* C5 as stated: after UpdateOne sets a field on a document matching the
\* filter, FindOne with the same filter returns a document with that field
\* at that value, for every filter with at least one match (the value being
\* of the field's type and the document decodable).
C5_AsStated ==
    (/\ last.op = "UpdateOne" /\ last.ret.err = Nil
     /\ Matching(before, last.filter) # <<>>
     /\ last.update.value[1] = FieldType(last.update.field)
     /\ WellTyped(Matching(before, last.filter)[1]))
        => /\ ThenFindOne(last.filter, <<>>).err = Nil
           /\ Reflects(ThenFindOne(last.filter, <<>>).val, last.update)

\* The filter does not ask the updated field to hold another value.
FilterAllows(filter, update) ==
    \A i \in 1..Len(filter) :
        filter[i][1] = update.field => filter[i][2] = update.value

\* C5: after UpdateOne sets field f to a value v of f's type on the first
\* document matching a filter that does not ask f to differ from v, that
\* document being decodable, FindOne with the same filter returns nil and a
\* document whose field f equals v.
C5_UpdateOneThenFindOne ==
    (/\ last.op = "UpdateOne" /\ last.ret.err = Nil
     /\ Matching(before, last.filter) # <<>>
     /\ FilterAllows(last.filter, last.update)
     /\ last.update.value[1] = FieldType(last.update.field)
     /\ WellTyped(Matching(before, last.filter)[1]))
        => /\ ThenFindOne(last.filter, <<>>).err = Nil
           /\ Reflects(ThenFindOne(last.filter, <<>>).val, last.update)

\* An update through a filter that matches two documents changed the first.
C5_Witness ==
    /\ last.op = "UpdateOne" /\ last.ret.err = Nil
    /\ Len(Matching(before, last.filter)) = 2
    /\ FilterAllows(last.filter, last.update)
    /\ store # before
    /\ Reflects(ThenFindOne(last.filter, <<>>).val, last.update)

\* C6: after DeleteMany with the filter {} returns nil, FindMany with {}
\* returns an empty slice and nil.
C6_DeleteAllThenFindMany ==
    (last.op = "DeleteMany" /\ last.filter = MatchAll /\ last.ret.err = Nil) =>
        /\ ThenFindMany(MatchAll, <<>>).err = Nil
        /\ ~ThenFindMany(MatchAll, <<>>).slice.isNil
        /\ ThenFindMany(MatchAll, <<>>).slice.elems = <<>>

\* DeleteMany({}) on a collection of two documents, one of them stored
\* under a generated ObjectID.
C6_Witness ==
    /\ last.op = "DeleteMany" /\ last.filter = MatchAll /\ last.ret.err = Nil
    /\ Len(before) = 2 /\ \E i \in 1..2 : ~WellTyped(before[i])
    /\ ThenFindMany(MatchAll, <<>>).slice.elems = <<>>

\* C7: when FindOne, FindMany, UpdateOne or UpdateMany is passed option
\* objects, the options forwarded to the store are the first object's.
C7_FirstOptionTakesEffect ==
    (/\ last.op \in {"FindOne", "FindMany", "UpdateOne", "UpdateMany"}
     /\ Len(last.opts) >= 1)
        => \A i \in 1..Len(last.ret.sent) : last.ret.sent[i].opts = last.opts[1]

\* C8: FindMany and Aggregate hold the cursor they obtained from their call
\* to the end of their loop and close it exactly once, as the last thing
\* before they return, on every path; they close nothing when the store
\* returned an error instead of a cursor; no call has returned with its
\* cursor open.
C8_CursorClosedOnEveryPath ==
    /\ openCursors = (IF InFlight THEN 1 ELSE 0)
    /\ (HasReturned("FindMany") \/ HasReturned("Aggregate")) =>
        /\ Count(last.ret.trace, "Close") = last.ret.cursors
        /\ last.ret.cursors = 1 <=> last.ret.point # "exec"
        /\ last.ret.cursors = 1 =>
              last.ret.trace[Len(last.ret.trace)] = "Close"

\* FindMany stopped by a row that does not decode, after a row that did,
\* and returned; another goroutine changed the collection while the cursor
\* was open.
C8_Witness ==
    /\ HasReturned("FindMany") /\ last.ret.point = "decode"
    /\ Count(last.ret.trace, "Decode") = 2
    /\ Count(last.ret.trace, "Close") = 1
    /\ last.others >= 1 /\ store # before

\* The context a handler puts in front of an error.
IsWrapped(ret) == Len(ret.err) > Len(ret.storeErr)

\* C9 as stated: every failure of the store, in every operation and at every
\* failure point, is returned wrapped with context and carrying its cause,
\* and no failure is retried or turned into a success.
C9_AsStated ==
    (last.op # "idle" /\ ~InFlight /\ last.ret.storeErr # Nil) =>
        /\ last.ret.err # Nil
        /\ Cause(last.ret.err) = Cause(last.ret.storeErr)
        /\ IsWrapped(last.ret)
        /\ Len(last.ret.sent) = 1

\* C10: a connector has at most one client that was created and not
\* released, its Client field refers to it, and a failed Connect returns a
\* nil handle and leaves the Client field as it was.
C10_AtMostOneClient ==
    /\ clients <= 1
    /\ clients = 1 => conn.Client = 1
    /\ connLast.err # Nil => connLast.isNil

====
